---- MODULE Spec2Model ----
(***************************************************************************)
(* Model of the CloudKit native bridge:                                    *)
(*   native/cloudkit/src/cloudkit_bridge.h   the provider's C interface    *)
(*   native/cloudkit/src/cloudkit_stub.cpp   the stub provider             *)
(*   native/cloudkit/src/node_addon.cpp      the CloudKitManager binding   *)
(***************************************************************************)
EXTENDS Integers, Sequences, FiniteSets, TLC

\* ------------------------------------------------------------------ bounds
MaxRequests  == 2   \* calls of CloudKitManager methods in one behaviour
MaxCallbacks == 2   \* callbacks an injected provider makes per request
MaxStubCalls == 2   \* direct calls of the stub's entry points

VARIABLES
    provider,         \* the library linked behind cloudkit_bridge.h
    obj,              \* life cycle of the CloudKitAddon object
    cloudKitManager,  \* CloudKitAddon::cloudKitManager
    ctorArg,          \* info[0] of the constructor call
    requests,         \* one record per method call, in call order
    providerCalls,    \* cloudkit_* calls made by the addon, in call order
    stubTrace         \* direct calls of the stub's entry points

vars == <<provider, obj, cloudKitManager, ctorArg, requests, providerCalls, stubTrace>>

\* ------------------------------------------------------- values crossing
NULL == "nullptr"

\* JavaScript values handed to the binding (info[0]); Undefined is a missing argument
Undefined  == [type |-> "undefined", val |-> ""]
EmptyStr   == [type |-> "string", val |-> ""]
SomeStr    == [type |-> "string", val |-> "id-1"]
EmptyObj   == [type |-> "object", val |-> ""]
SomeObj    == [type |-> "object", val |-> "id:1"]
JsArgs     == {Undefined, EmptyStr, SomeStr, EmptyObj, SomeObj}

\* info.Length() < 1
InfoLength(arg) == IF arg.type = "undefined" THEN 0 ELSE 1
IsString(arg) == arg.type = "string"
IsObject(arg) == arg.type = "object"
\* Napi::String::Utf8Value
Utf8Value(arg) == arg.val
\* Napi::JSON::Stringify(...).Utf8Value() of a plain object
JSONStringify(arg) == IF arg.val = "" THEN "{}" ELSE "{" \o arg.val \o "}"

Ops == {"saveSettings", "fetchSettings", "saveHistoryItem", "fetchAllHistory",
        "deleteHistoryItem", "saveNote", "fetchAllNotes", "deleteNote"}
SaveOps   == {"saveSettings", "saveHistoryItem", "saveNote"}
DeleteOps == {"deleteHistoryItem", "deleteNote"}
FetchOps  == {"fetchSettings", "fetchAllHistory", "fetchAllNotes"}

EntryPoints == {"cloudkit_save_settings", "cloudkit_fetch_settings",
                "cloudkit_save_history_item", "cloudkit_fetch_all_history",
                "cloudkit_delete_history_item", "cloudkit_save_note",
                "cloudkit_fetch_all_notes", "cloudkit_delete_note"}

\* the two callback signatures of cloudkit_bridge.h
BoolCb(success, error) == [sig |-> "bool", success |-> success, json |-> NULL, error |-> error]
JsonCb(json, error)    == [sig |-> "json", success |-> FALSE, json |-> json, error |-> error]

\* ------------------------------------------------------- cloudkit_stub.cpp
NotInitializedMsg == "CloudKit not initialized - requires Apple Developer setup"
DummyPtr == "0x1"

cloudkit_init(containerIdentifier) == DummyPtr

\* each entry point yields the sequence of callback invocations it makes
\* before it returns; callback is TRUE for a non-null function pointer
cloudkit_save_settings(manager, jsonSettings, callback) ==
    IF callback THEN <<BoolCb(FALSE, NotInitializedMsg)>> ELSE <<>>

cloudkit_fetch_settings(manager, callback) ==
    IF callback THEN <<JsonCb(NULL, NULL)>> ELSE <<>>

cloudkit_save_history_item(manager, jsonItem, callback) ==
    IF callback THEN <<BoolCb(FALSE, NotInitializedMsg)>> ELSE <<>>

cloudkit_fetch_all_history(manager, callback) ==
    IF callback THEN <<JsonCb("[]", NULL)>> ELSE <<>>

cloudkit_delete_history_item(manager, itemId, callback) ==
    IF callback THEN <<BoolCb(FALSE, NotInitializedMsg)>> ELSE <<>>

cloudkit_save_note(manager, jsonNote, callback) ==
    IF callback THEN <<BoolCb(FALSE, NotInitializedMsg)>> ELSE <<>>

StubFetchAllNotesNull(manager, callback) ==
    IF callback THEN <<JsonCb(NULL, NULL)>> ELSE <<>>

cloudkit_fetch_all_notes(manager, callback) ==
    IF callback THEN <<JsonCb("[]", NULL)>> ELSE <<>>

StubDeleteNoteReportsSuccess(manager, itemId, callback) ==
    IF callback THEN <<BoolCb(TRUE, NULL)>> ELSE <<>>

cloudkit_delete_note(manager, itemId, callback) ==
    IF callback THEN <<BoolCb(FALSE, NotInitializedMsg)>> ELSE <<>>

\* the stub behind the C interface, by entry point
StubCall(entry, manager, payload, callback) ==
    CASE entry = "cloudkit_save_settings"       -> cloudkit_save_settings(manager, payload, callback)
      [] entry = "cloudkit_fetch_settings"      -> cloudkit_fetch_settings(manager, callback)
      [] entry = "cloudkit_save_history_item"   -> cloudkit_save_history_item(manager, payload, callback)
      [] entry = "cloudkit_fetch_all_history"   -> cloudkit_fetch_all_history(manager, callback)
      [] entry = "cloudkit_delete_history_item" -> cloudkit_delete_history_item(manager, payload, callback)
      [] entry = "cloudkit_save_note"           -> cloudkit_save_note(manager, payload, callback)
      [] entry = "cloudkit_fetch_all_notes"     -> cloudkit_fetch_all_notes(manager, callback)
      [] entry = "cloudkit_delete_note"         -> cloudkit_delete_note(manager, payload, callback)

\* ------------------------------------------- a provider other than the stub
\* cloudkit_bridge.h fixes only the signatures.  An injected provider
\* establishes a session or fails (NULL), calls back provider.callbacks times
\* per request, later and from its own thread, and reports success on a
\* session and a failure otherwise.
Session == "session"
StubProvider == [kind |-> "stub", callbacks |-> 1]
InjectedProviders == {[kind |-> "injected", callbacks |-> n] : n \in 0..MaxCallbacks}
Providers == {StubProvider} \cup InjectedProviders

InjectedInit(containerIdentifier) == {NULL, Session}

InjectedOutcome(entry, manager) ==
    IF entry \in {"cloudkit_fetch_settings", "cloudkit_fetch_all_history", "cloudkit_fetch_all_notes"}
    THEN IF manager = Session THEN JsonCb("[{id:1}]", NULL) ELSE JsonCb(NULL, "invalid manager")
    ELSE IF manager = Session THEN BoolCb(TRUE, NULL) ELSE BoolCb(FALSE, "invalid manager")

\* void* cloudkit_init(const char*) of the linked provider
ProviderInit(p, containerIdentifier) ==
    IF p.kind = "stub" THEN {cloudkit_init(containerIdentifier)} ELSE InjectedInit(containerIdentifier)

\* callbacks the linked provider makes before the entry point returns
ProviderSync(p, entry, manager, payload) ==
    IF p.kind = "stub" THEN StubCall(entry, manager, payload, TRUE) ELSE <<>>

\* callbacks the linked provider still owes after the entry point returned
ProviderLate(p) == IF p.kind = "stub" THEN 0 ELSE p.callbacks

\* ----------------------------------------------------------- node_addon.cpp
NoCb == [sig |-> "none", success |-> FALSE, json |-> NULL, error |-> NULL]

\* Napi::Promise::Deferred
NoPromise   == [state |-> "none", value |-> "", resolveCount |-> 0]
NewDeferred == [state |-> "pending", value |-> "", resolveCount |-> 0]

ResolveDropped(p, v) == p

\* promise.Resolve(v): the first resolution fixes the value
Resolve(p, v) ==
    [state |-> "resolved",
     value |-> IF p.state = "resolved" THEN p.value ELSE v,
     resolveCount |-> p.resolveCount + 1]

\* JavaScript value a callback's arguments stand for
CbValue(cb) ==
    IF cb.sig = "bool" THEN (IF cb.success THEN "true" ELSE "false")
    ELSE IF cb.json = NULL THEN "null" ELSE cb.json

CallbackLambdaResolves(p, cb) == Resolve(p, CbValue(cb))

\* the lambda every method hands to the provider: its body is empty
CallbackLambda(p, cb) == p

RECURSIVE ApplyCallbacks(_, _)
ApplyCallbacks(p, invocations) ==
    IF invocations = <<>> THEN p
    ELSE ApplyCallbacks(CallbackLambda(p, Head(invocations)), Tail(invocations))

EntryPointOfCopyPaste(op) ==
    CASE op = "saveSettings"      -> "cloudkit_save_settings"
      [] op = "fetchSettings"     -> "cloudkit_fetch_settings"
      [] op = "saveHistoryItem"   -> "cloudkit_save_history_item"
      [] op = "fetchAllHistory"   -> "cloudkit_fetch_all_history"
      [] op = "deleteHistoryItem" -> "cloudkit_delete_history_item"
      [] op = "saveNote"          -> "cloudkit_save_note"
      [] op = "fetchAllNotes"     -> "cloudkit_fetch_all_notes"
      [] op = "deleteNote"        -> "cloudkit_delete_history_item"

\* the provider entry point each method calls
EntryPointOf(op) ==
    CASE op = "saveSettings"      -> "cloudkit_save_settings"
      [] op = "fetchSettings"     -> "cloudkit_fetch_settings"
      [] op = "saveHistoryItem"   -> "cloudkit_save_history_item"
      [] op = "fetchAllHistory"   -> "cloudkit_fetch_all_history"
      [] op = "deleteHistoryItem" -> "cloudkit_delete_history_item"
      [] op = "saveNote"          -> "cloudkit_save_note"
      [] op = "fetchAllNotes"     -> "cloudkit_fetch_all_notes"
      [] op = "deleteNote"        -> "cloudkit_delete_note"

\* the value each method passes to promise.Resolve
ResolvedValueOf(op) ==
    CASE op \in SaveOps \cup DeleteOps                -> "true"
      [] op = "fetchSettings"                          -> "null"
      [] op \in {"fetchAllHistory", "fetchAllNotes"}   -> "[]"

\* ThrowAsJavaScriptException(); return env.Null();
Rejected(op, arg) ==
    [op |-> op, arg |-> arg, thrown |-> "TypeError", promise |-> NoPromise,
     call |-> 0, delivered |-> 0, pending |-> 0, lastCb |-> NoCb]

\* the common tail of the eight methods: Deferred::New, the provider call
\* with the lambda, promise.Resolve(fixed value), return promise.Promise()
Dispatched(op, arg, payload) ==
    LET entry == EntryPointOf(op)
        sync  == ProviderSync(provider, entry, cloudKitManager, payload)
    IN  [op |-> op, arg |-> arg, thrown |-> "none",
         promise |-> Resolve(ApplyCallbacks(NewDeferred, sync), ResolvedValueOf(op)),
         call |-> Len(providerCalls) + 1,
         delivered |-> Len(sync),
         pending |-> ProviderLate(provider),
         lastCb |-> IF sync = <<>> THEN NoCb ELSE sync[Len(sync)]]

CanCall == obj = "constructed" /\ Len(requests) < MaxRequests

Throw(op, arg) ==
    /\ requests' = Append(requests, Rejected(op, arg))
    /\ UNCHANGED <<provider, obj, cloudKitManager, ctorArg, providerCalls, stubTrace>>

Dispatch(op, arg, payload) ==
    /\ requests' = Append(requests, Dispatched(op, arg, payload))
    /\ providerCalls' = Append(providerCalls,
            [entry |-> EntryPointOf(op), manager |-> cloudKitManager, payload |-> payload])
    /\ UNCHANGED <<provider, obj, cloudKitManager, ctorArg, stubTrace>>

\* CloudKitAddon::CloudKitAddon
Construct(arg) ==
    /\ obj = "none"
    /\ ctorArg' = arg
    /\ IF InfoLength(arg) < 1 \/ ~IsString(arg)
       THEN /\ obj' = "failed"
            /\ UNCHANGED cloudKitManager
       ELSE /\ obj' = "constructed"
            /\ cloudKitManager' \in ProviderInit(provider, Utf8Value(arg))
    /\ UNCHANGED <<provider, requests, providerCalls, stubTrace>>

SaveSettings(arg) ==
    /\ CanCall
    /\ IF InfoLength(arg) < 1 \/ ~IsObject(arg)
       THEN Throw("saveSettings", arg)
       ELSE Dispatch("saveSettings", arg, JSONStringify(arg))

\* info is not read: the arguments of the call play no part
FetchSettings ==
    /\ CanCall
    /\ Dispatch("fetchSettings", Undefined, NULL)

SaveHistoryItem(arg) ==
    /\ CanCall
    /\ IF InfoLength(arg) < 1 \/ ~IsObject(arg)
       THEN Throw("saveHistoryItem", arg)
       ELSE Dispatch("saveHistoryItem", arg, JSONStringify(arg))

\* info is not read: the arguments of the call play no part
FetchAllHistory ==
    /\ CanCall
    /\ Dispatch("fetchAllHistory", Undefined, NULL)

DeleteHistoryItem(arg) ==
    /\ CanCall
    /\ IF InfoLength(arg) < 1 \/ ~IsString(arg)
       THEN Throw("deleteHistoryItem", arg)
       ELSE Dispatch("deleteHistoryItem", arg, Utf8Value(arg))

SaveNote(arg) ==
    /\ CanCall
    /\ IF InfoLength(arg) < 1 \/ ~IsObject(arg)
       THEN Throw("saveNote", arg)
       ELSE Dispatch("saveNote", arg, JSONStringify(arg))

\* info is not read: the arguments of the call play no part
FetchAllNotes ==
    /\ CanCall
    /\ Dispatch("fetchAllNotes", Undefined, NULL)

DeleteNote(arg) ==
    /\ CanCall
    /\ IF InfoLength(arg) < 1 \/ ~IsString(arg)
       THEN Throw("deleteNote", arg)
       ELSE Dispatch("deleteNote", arg, Utf8Value(arg))

\* the provider's thread invokes the lambda of request i
Deliver(i) ==
    /\ i \in 1..Len(requests)
    /\ requests[i].pending > 0
    /\ LET c  == providerCalls[requests[i].call]
           cb == InjectedOutcome(c.entry, c.manager)
       IN  requests' = [requests EXCEPT ![i].pending = @ - 1,
                                        ![i].delivered = @ + 1,
                                        ![i].lastCb = cb,
                                        ![i].promise = CallbackLambda(@, cb)]
    /\ UNCHANGED <<provider, obj, cloudKitManager, ctorArg, providerCalls, stubTrace>>

\* the CloudKitManager object and its environment go away (no destructor,
\* no shutdown method: nothing is released and nothing is cancelled)
Teardown ==
    /\ obj = "constructed"
    /\ obj' = "destroyed"
    /\ UNCHANGED <<provider, cloudKitManager, ctorArg, requests, providerCalls, stubTrace>>

Init ==
    /\ provider \in Providers
    /\ obj = "none"
    /\ cloudKitManager = "uninitialized"
    /\ ctorArg = Undefined
    /\ requests = <<>>
    /\ providerCalls = <<>>
    /\ stubTrace = <<>>

Next ==
    \/ \E arg \in JsArgs : Construct(arg)
    \/ \E arg \in JsArgs : SaveSettings(arg)
    \/ FetchSettings
    \/ \E arg \in JsArgs : SaveHistoryItem(arg)
    \/ FetchAllHistory
    \/ \E arg \in JsArgs : DeleteHistoryItem(arg)
    \/ \E arg \in JsArgs : SaveNote(arg)
    \/ FetchAllNotes
    \/ \E arg \in JsArgs : DeleteNote(arg)
    \/ \E i \in 1..MaxRequests : Deliver(i)
    \/ Teardown

Spec == Init /\ [][Next]_vars

\* ------------------------------------- the stub's entry points on their own
StubManagers == {NULL, DummyPtr}
StubPayloads == {NULL, "", "{id:1}"}

StubDirect(entry, manager, payload, callback) ==
    /\ Len(stubTrace) < MaxStubCalls
    /\ stubTrace' = Append(stubTrace,
            [entry |-> entry, manager |-> manager, payload |-> payload, callback |-> callback,
             invocations |-> StubCall(entry, manager, payload, callback)])
    /\ UNCHANGED <<provider, obj, cloudKitManager, ctorArg, requests, providerCalls>>

InitStub ==
    /\ provider = StubProvider
    /\ obj = "none"
    /\ cloudKitManager = "uninitialized"
    /\ ctorArg = Undefined
    /\ requests = <<>>
    /\ providerCalls = <<>>
    /\ stubTrace = <<>>

NextStub ==
    \E entry \in EntryPoints, manager \in StubManagers, payload \in StubPayloads, callback \in BOOLEAN :
        StubDirect(entry, manager, payload, callback)

SpecStub == InitStub /\ [][NextStub]_vars

\* ================================================================ properties
Reqs == 1..Len(requests)
SaveDeleteEntries == {"cloudkit_save_settings", "cloudkit_save_history_item",
                      "cloudkit_delete_history_item", "cloudkit_save_note", "cloudkit_delete_note"}

\* a payload that is well formed for its operation: a non-empty record for
\* Save*, a non-empty identifier for Delete*, nothing for Fetch*
WellFormed(op, arg) ==
    CASE op \in SaveOps   -> arg.type = "object" /\ arg.val # ""
      [] op \in DeleteOps -> arg.type = "string" /\ arg.val # ""
      [] op \in FetchOps  -> TRUE

\* cloudkit_init established no session: the handle is not live
HandleNotLive == cloudKitManager = NULL

\* the provider entry point that matches each operation
MatchingEntry ==
    [saveSettings      |-> "cloudkit_save_settings",
     fetchSettings     |-> "cloudkit_fetch_settings",
     saveHistoryItem   |-> "cloudkit_save_history_item",
     fetchAllHistory   |-> "cloudkit_fetch_all_history",
     deleteHistoryItem |-> "cloudkit_delete_history_item",
     saveNote          |-> "cloudkit_save_note",
     fetchAllNotes     |-> "cloudkit_fetch_all_notes",
     deleteNote        |-> "cloudkit_delete_note"]

\* C1: with the stub provider, every Save/Delete called with a well-formed
\* argument resolves its promise as a failure (false), never as success.
C1_StubSaveDeleteResolvesFailure ==
    \A i \in Reqs :
        (provider.kind = "stub" /\ requests[i].op \in SaveOps \cup DeleteOps
            /\ WellFormed(requests[i].op, requests[i].arg))
        => (requests[i].promise.state = "resolved" /\ requests[i].promise.value = "false")

\* C2: with the stub provider, every Fetch resolves its promise with an empty
\* sequence, and the stub's callback delivers an empty sequence, never null.
C2_StubFetchResolvesEmptySequence ==
    \A i \in Reqs :
        (provider.kind = "stub" /\ requests[i].op \in FetchOps)
        => /\ requests[i].promise.state = "resolved"
           /\ requests[i].promise.value = "[]"
           /\ requests[i].delivered = 1
           /\ requests[i].lastCb.json = "[]"

\* C2, as amended: with the stub provider, fetchAllHistory and fetchAllNotes
\* resolve with an empty sequence and the stub's one callback delivers "[]";
\* fetchSettings resolves with null and the stub's one callback delivers null.
C2_StubFetchAllResolvesEmptySequence ==
    \A i \in Reqs :
        (provider.kind = "stub" /\ requests[i].op \in FetchOps)
        => /\ requests[i].promise.state = "resolved"
           /\ requests[i].delivered = 1
           /\ IF requests[i].op = "fetchSettings"
              THEN requests[i].promise.value = "null" /\ requests[i].lastCb.json = NULL
              ELSE requests[i].promise.value = "[]" /\ requests[i].lastCb.json = "[]"

\* the stub provider has served a fetchAllNotes and a fetchSettings
C2_Witness ==
    /\ provider.kind = "stub"
    /\ \E i, j \in Reqs :
        /\ requests[i].op = "fetchAllNotes" /\ requests[i].promise.value = "[]"
        /\ requests[j].op = "fetchSettings" /\ requests[j].promise.state = "resolved"

\* C3: the promise of every request that passed validation has been resolved
\* exactly once, however many callbacks (0, 1, 2, ...) the provider has made.
C3_ResolvedExactlyOnce ==
    \A i \in Reqs :
        requests[i].thrown = "none"
        => (requests[i].promise.state = "resolved" /\ requests[i].promise.resolveCount = 1)

\* a well-formed request on a live handle whose provider called back twice
C3_Witness ==
    \E i \in Reqs :
        /\ cloudKitManager = Session
        /\ WellFormed(requests[i].op, requests[i].arg)
        /\ requests[i].op = "saveNote"
        /\ requests[i].delivered = 2
        /\ requests[i].promise.resolveCount = 1

\* C4: a promise is resolved only once the provider's callback for its request
\* has been received, and its value is the outcome that callback delivered.
C4_ResolvesWithCallbackOutcome ==
    \A i \in Reqs :
        requests[i].promise.state = "resolved"
        => (requests[i].delivered >= 1 /\ requests[i].promise.value = CbValue(requests[i].lastCb))

\* C5: a request with a malformed payload fails synchronously with an
\* argument error, calls no provider entry point and resolves no promise.
C5_MalformedFailsSynchronously ==
    \A i \in Reqs :
        ~WellFormed(requests[i].op, requests[i].arg)
        => /\ requests[i].thrown = "TypeError"
           /\ requests[i].call = 0
           /\ requests[i].promise.state = "none"

\* C6: an operation issued on a handle that is not live yields InvalidHandle
\* synchronously and calls no provider entry point.
C6_NotLiveYieldsInvalidHandle ==
    \A i \in Reqs :
        HandleNotLive
        => (requests[i].thrown = "InvalidHandle" /\ requests[i].call = 0)

\* C7: construction with an empty or malformed container identifier, or with
\* the provider unavailable (the stub), yields no usable CloudKitManager.
C7_InitFailsWithoutSession ==
    (ctorArg.type # "string" \/ ctorArg.val = "" \/ provider.kind = "stub" \/ cloudKitManager # Session)
    => obj \notin {"constructed", "destroyed"}

\* C8: a step that adds a request which passed validation adds exactly one
\* provider call, of the matching entry point; no other step adds, removes or
\* changes a provider call (no retry when a callback reports failure).
C8_OneMatchingProviderCall ==
    [][ IF /\ Len(requests') = Len(requests) + 1
           /\ requests'[Len(requests')].thrown = "none"
        THEN /\ Len(providerCalls') = Len(providerCalls) + 1
             /\ SubSeq(providerCalls', 1, Len(providerCalls)) = providerCalls
             /\ providerCalls'[Len(providerCalls')].entry
                    = MatchingEntry[requests'[Len(requests')].op]
             /\ requests'[Len(requests')].call = Len(providerCalls')
        ELSE providerCalls' = providerCalls ]_vars

\* every allowed request made, a deleteNote among them whose provider
\* reported a failure, and as many provider calls as dispatched requests
C8_Witness ==
    /\ Len(requests) = MaxRequests
    /\ \E i \in Reqs :
        /\ requests[i].op = "deleteNote"
        /\ requests[i].delivered >= 1
        /\ requests[i].lastCb.sig = "bool"
        /\ ~requests[i].lastCb.success
    /\ Len(providerCalls) = Cardinality({i \in Reqs : requests[i].thrown = "none"})

\* C9: a step in which a callback of request i is delivered leaves the promise
\* of i, the session handle, the object, the provider calls and every other
\* request as they were; and no promise is ever resolved by a callback on top
\* of the method's own resolution.
C9_CallbackChangesNothing ==
    [][ /\ \A i \in Reqs :
            requests'[i].delivered > requests[i].delivered
            => /\ requests'[i].promise = requests[i].promise
               /\ cloudKitManager' = cloudKitManager
               /\ obj' = obj
               /\ providerCalls' = providerCalls
               /\ Len(requests') = Len(requests)
               /\ \A j \in Reqs \ {i} : requests'[j] = requests[j]
        /\ \A i \in 1..Len(requests') :
            requests'[i].delivered >= 1 => requests'[i].promise.resolveCount <= 1 ]_vars

\* after the object is gone: one request has had a duplicate callback
\* delivered while another still has callbacks in flight
C9_Witness ==
    /\ obj = "destroyed"
    /\ \E i, j \in Reqs :
        /\ i # j
        /\ requests[i].delivered = 2
        /\ requests[j].pending > 0

====
